---- MODULE Spec2Model ----
(***************************************************************************)
(* AlooTaxi: trip lifecycle (driver view), route resolution (OSRM service) *)
(* and fare quotes (customer view), modelled from the TypeScript sources.  *)
(*                                                                         *)
(* The module holds several specifications over the same variables:        *)
(*   SpecDriver    the driver view's handlers, called with any argument    *)
(*                 of their parameter type                                 *)
(*   SpecDriverUI  the driver view driven through the rendered buttons     *)
(*   SpecRoute     one invocation of getRouteOSRM against an arbitrary     *)
(*                 routing collaborator                                    *)
(*   SpecFare      calculatePrice applied to distances, vehicle classes    *)
(*                 and pricing configurations                              *)
(***************************************************************************)
EXTENDS Integers, Sequences, FiniteSets, TLC

(***************************************************************************)
(* Bounds of the model                                                     *)
(***************************************************************************)
\* number of trips the dispatch feed offers to the driver in one behaviour
MaxTrips == 3
\* number of completion timers that can be pending at once
MaxTimers == 2
\* coordinates are drawn from 0..MaxCoord (latitude and longitude)
MaxCoord == 1
\* distances 0..MaxDistance metres are enumerated next to the scenario ones
MaxDistance == 3
\* the numbers of suggestion fetches and of route resolutions issued, and of reverse
\* geocodings in flight
MaxFetches == 2
MaxResolutions == 2
MaxGeocodes == 1
\* the numbers of fetchSettings calls and of handleSave calls in flight
MaxSettingsCalls == 2
MaxSaves == 2
\* the number of handleSubmit calls of the activation screen in flight
MaxActivations == 2

(***************************************************************************)
(* Trip and TripStatus (src/constants.ts)                                  *)
(***************************************************************************)
TripStatus ==
  {"requested", "accepted", "driver_arrived", "in_progress", "completed", "cancelled", "scheduled"}

\* the parameter type of updateTripStatus
UpdateStatuses == {"driver_arrived", "in_progress", "completed"}

\* statuses a trip offered to a driver can have: a new trip, immediate or future-dated
OfferedStatuses == {"requested", "scheduled"}

\* estimated costs carried by offered trips (the two quotes of the pricing scenario)
OfferedCosts == {4500, 9000}

\* optional fields that are not set (undefined)
NoDriver == 0
NoCost == -1

\* null in useState<Trip | null>
NullTrip ==
  [id |-> 0, status |-> "null", driver_id |-> NoDriver, estimated_cost |-> NoCost, final_cost |-> NoCost]

NewTrip(i, s, c) ==
  [id |-> i, status |-> s, driver_id |-> NoDriver, estimated_cost |-> c, final_cost |-> NoCost]

\* the availability status of the driver
DriverStatus == {"offline", "online", "in_trip"}

\* no status-change request has been made yet
NoRequest == [from |-> "null", to |-> "null", trip |-> 0, after |-> "null", error |-> "none"]

VARIABLES
  \* DriverView
  currentTrip,      \* useState<Trip | null>(null)
  incomingRequest,  \* useState<Trip | null>(null)
  status,           \* 'offline' | 'online' | 'in_trip'
  timers,           \* number of pending setTimeout(..., 3000) callbacks
  nextTripId,       \* dispatch feed: id of the next trip it offers
  lastRequest,      \* history: the last status-change request and what it did
  \* getRouteOSRM
  pc,               \* position of the invocation
  start,            \* parameter start
  end,              \* parameter end
  response,         \* let response
  firstResponse,    \* history: what the first route call answered
  routeCalls,       \* history: the arguments of the calls to the route endpoint
  snapCalls,        \* history: the arguments of the calls to the nearest endpoint
  snapReply,        \* history: what the nearest endpoint answered for start and end
  snapped,          \* [snappedStart, snappedEnd], the values of the two snapToRoad calls
  outcome,          \* what the invocation returned or threw
  \* CustomerView pricing
  settings,         \* useSettings().settings
  distance,         \* useState<number>(0)
  quote,            \* history: the last application of calculatePrice
  prevQuote         \* history: the application before it

driverVars == <<currentTrip, incomingRequest, status, timers, nextTripId, lastRequest>>

routeVars ==
  <<pc, start, end, response, firstResponse, routeCalls, snapCalls, snapReply, snapped, outcome>>

fareVars == <<settings, distance, quote, prevQuote>>

VARIABLES
  \* CustomerView
  geo,               \* useGeolocation(): the position fix, or none yet
  orsApiKey,         \* !!settings.ors_api_key
  pickup,            \* useState<{coords, address} | null>(null)
  dropoff,           \* useState<{coords, address} | null>(null)
  query,             \* pickupQuery and dropoffQuery, by field
  suggestions,       \* pickupSuggestions and dropoffSuggestions, by field
  suggestTimer,      \* by field: the setTimeout(..., 500) of the suggestion effect is pending
  fetches,           \* the getAutocomplete calls in flight
  issued,            \* history, by field: the number of the last fetch issued
  nextFetch,         \* history: the number of the next fetch
  geocodes,          \* the handleSetPickup / handleSetDropoff calls awaiting reverseGeocodeNominatim
  route,             \* useState<LatLngTuple[]>([]): the pair the geometry was resolved for
  routeError,        \* useState<string | null>(null)
  tripStatus,        \* 'idle' | 'pricing' | 'requested' | 'confirmed' | 'ongoing'
  isCalculatingRoute,
  routeTimer,        \* the setTimeout(..., 300) of the route effect is pending
  resolutions,       \* the getRouteOSRM calls in flight, with their arguments
  issuedRoute,       \* history: the number of the last resolution issued
  nextResolution,    \* history: the number of the next resolution
  selectedVehicle,   \* useState<VehicleType>(VehicleType.Regular)
  confirmTimers,     \* number of pending setTimeout(..., 5000) callbacks
  lastTripRequest    \* history: what the last handleRequestTrip asked for

customerVars ==
  <<geo, orsApiKey, pickup, dropoff, query, suggestions, suggestTimer, fetches, issued, nextFetch,
    geocodes, route, routeError, tripStatus, isCalculatingRoute, routeTimer, resolutions,
    issuedRoute, nextResolution, selectedVehicle, confirmTimers, lastTripRequest>>

\* App and SettingsProvider
VARIABLES
  user,              \* App: useState<User | null>(null), by the role of the user
  settingsLoading,   \* SettingsProvider: useState(true)
  settingsError,     \* SettingsProvider: useState<string | null>(null), by its prefix
  settingsCalls,     \* the numbers of fetchSettings calls in flight, by the await they are at
  saveCalls,         \* number of handleSave calls awaiting updateSettings
  saving,            \* AppSettings: the mounted form's handleSave, by the await it is at
  form,              \* AppSettings: useState<Partial<AppSettings>>({}), the form's copy
  activations,       \* the handleSubmit calls of ActivationScreen awaiting verifyActivationCode
  submitting,        \* ActivationScreen: useState(false), its loading flag
  loadedRow,         \* history: the row the last successful getSettings() returned
  lastLogin          \* history: what set the user last, the sign-in or an activation with
                     \* the code submitted and the code stored

appVars ==
  <<user, settingsLoading, settingsError, settingsCalls, saveCalls, saving, form, activations,
    submitting, loadedRow, lastLogin>>

\* what the actions of one component leave alone
restOfDriver == <<routeVars, fareVars, customerVars, appVars>>

restOfRoute == <<driverVars, fareVars, customerVars, appVars>>

restOfFare == <<driverVars, routeVars, customerVars, appVars>>

vars == <<driverVars, routeVars, fareVars, customerVars, appVars>>

DriverInit ==
  /\ currentTrip = NullTrip
  /\ incomingRequest = NullTrip
  /\ status = "offline"
  /\ timers = 0
  /\ nextTripId = 1
  /\ lastRequest = NoRequest

(***************************************************************************)
(* The transition table of the trip state machine                          *)
(***************************************************************************)
TransitionTable ==
  { <<"requested", "accepted">>, <<"requested", "scheduled">>, <<"requested", "cancelled">>,
    <<"scheduled", "accepted">>, <<"scheduled", "cancelled">>,
    <<"accepted", "driver_arrived">>, <<"accepted", "cancelled">>,
    <<"driver_arrived", "in_progress">>,
    <<"in_progress", "completed">> }

TerminalStatuses == {"completed", "cancelled"}

(***************************************************************************)
(* DriverView (src/unnamed/part_001)                                       *)
(***************************************************************************)

\* the record of a status-change request: asked on a trip in status s for status t,
\* which left the trip as the record after (the handlers report no error)
Request(trip, t, after) ==
  [from |-> trip.status, to |-> t, trip |-> trip.id, after |-> after.status, error |-> "none"]

\* the dispatch feed offers a new trip to this driver (setIncomingRequest)
ReceiveRequest ==
  /\ nextTripId <= MaxTrips
  /\ \E s \in OfferedStatuses, c \in OfferedCosts :
       incomingRequest' = NewTrip(nextTripId, s, c)
  /\ nextTripId' = nextTripId + 1
  /\ UNCHANGED <<currentTrip, status, timers, lastRequest, restOfDriver>>

\* { ...incomingRequest, status: 'accepted' }
AcceptedTrip(trip) == [trip EXCEPT !.status = "accepted"]

\* const handleAcceptRequest = () => { if (incomingRequest) { ... } }
handleAcceptRequest ==
  /\ incomingRequest # NullTrip
  /\ currentTrip' = AcceptedTrip(incomingRequest)
  /\ incomingRequest' = NullTrip
  /\ status' = "in_trip"
  /\ lastRequest' = Request(incomingRequest, "accepted", AcceptedTrip(incomingRequest))
  /\ UNCHANGED <<timers, nextTripId, restOfDriver>>

\* const handleDeclineRequest = () => { setIncomingRequest(null); }
handleDeclineRequest ==
  /\ incomingRequest # NullTrip
  /\ incomingRequest' = NullTrip
  /\ UNCHANGED <<currentTrip, status, timers, nextTripId, lastRequest, restOfDriver>>

\* { ...currentTrip, status: newStatus }
UpdatedTrip(trip, newStatus) == [trip EXCEPT !.status = newStatus]

\* const updateTripStatus = (newStatus) => { if (currentTrip) { ... } }
updateTripStatus(newStatus) ==
  /\ currentTrip # NullTrip
  /\ newStatus = "completed" => timers < MaxTimers
  /\ currentTrip' = UpdatedTrip(currentTrip, newStatus)
  /\ timers' = IF newStatus = "completed" THEN timers + 1 ELSE timers
  /\ lastRequest' = Request(currentTrip, newStatus, UpdatedTrip(currentTrip, newStatus))
  /\ UNCHANGED <<incomingRequest, status, nextTripId, restOfDriver>>

\* setTimeout(() => { setCurrentTrip(null); setStatus('online'); }, 3000)
CompletionTimer ==
  /\ timers > 0
  /\ timers' = timers - 1
  /\ currentTrip' = NullTrip
  /\ status' = "online"
  /\ UNCHANGED <<incomingRequest, nextTripId, lastRequest, restOfDriver>>

\* onClick={() => setStatus(s => s === 'online' ? 'offline' : 'online')}
ToggledStatus(s) == IF s = "online" THEN "offline" ELSE "online"

\* the availability button, disabled={status === 'in_trip'}
ToggleAvailability ==
  /\ status # "in_trip"
  /\ status' = ToggledStatus(status)
  /\ UNCHANGED <<currentTrip, incomingRequest, timers, nextTripId, lastRequest, restOfDriver>>

\* the handlers called directly, with any argument of their parameter type
CallUpdateTripStatus == \E newStatus \in UpdateStatuses : updateTripStatus(newStatus)

DriverNext ==
  \/ ReceiveRequest
  \/ handleAcceptRequest
  \/ handleDeclineRequest
  \/ CallUpdateTripStatus
  \/ CompletionTimer
  \/ ToggleAvailability

(***************************************************************************)
(* DriverView through its rendered panels: a handler runs only when the    *)
(* button that calls it is on screen                                       *)
(***************************************************************************)
\* {incomingRequest && status === 'online' && ( ... )}
IncomingPanelShown == incomingRequest # NullTrip /\ status = "online"

\* {currentTrip && status === 'in_trip' && ( ... )}
TripPanelShown == currentTrip # NullTrip /\ status = "in_trip"

\* mutant of ButtonTarget: the arrival button starts the trip
ButtonTargetSkipping(s) ==
  CASE s = "accepted" -> "in_progress"
    [] s = "driver_arrived" -> "in_progress"
    [] s = "in_progress" -> "completed"
    [] OTHER -> "null"

\* the status the button rendered for a trip status asks for
ButtonTarget(s) ==
  CASE s = "accepted" -> "driver_arrived"
    [] s = "driver_arrived" -> "in_progress"
    [] s = "in_progress" -> "completed"
    [] OTHER -> "null"

ClickAccept == IncomingPanelShown /\ handleAcceptRequest

ClickDecline == IncomingPanelShown /\ handleDeclineRequest

ClickArrived ==
  /\ TripPanelShown
  /\ currentTrip.status = "accepted"
  /\ updateTripStatus(ButtonTarget("accepted"))

ClickStartTrip ==
  /\ TripPanelShown
  /\ currentTrip.status = "driver_arrived"
  /\ updateTripStatus(ButtonTarget("driver_arrived"))

ClickEndTrip ==
  /\ TripPanelShown
  /\ currentTrip.status = "in_progress"
  /\ updateTripStatus(ButtonTarget("in_progress"))

DriverUINext ==
  \/ ReceiveRequest
  \/ ClickAccept
  \/ ClickDecline
  \/ ClickArrived
  \/ ClickStartTrip
  \/ ClickEndTrip
  \/ CompletionTimer
  \/ ToggleAvailability

(***************************************************************************)
(* DriverView as the App imports it (src/components/driver/DriverView.tsx): *)
(* the same handlers and panels; its availability button has no disabled   *)
(***************************************************************************)
\* <button onClick={() => setStatus(s => s === 'online' ? 'offline' : 'online')} ...>
ToggleStatus ==
  /\ status' = ToggledStatus(status)
  /\ UNCHANGED <<currentTrip, incomingRequest, timers, nextTripId, lastRequest, restOfDriver>>

DriverViewNext ==
  \/ ReceiveRequest
  \/ ClickAccept
  \/ ClickDecline
  \/ ClickArrived
  \/ ClickStartTrip
  \/ ClickEndTrip
  \/ CompletionTimer
  \/ ToggleStatus

(***************************************************************************)
(* getRouteOSRM and snapToRoad (src/components/customer/CustomerView.tsx)  *)
(***************************************************************************)
\* interface LngLat { lng: number; lat: number; }
Points == [lat : 0..MaxCoord, lng : 0..MaxCoord]

\* HTTP statuses the collaborator answers with
Statuses == {200, 400, 500}

\* response bodies: JSON with a code (and, for Ok, routes or none), or no JSON at all
Bodies == {"Ok", "OkNoRoutes", "NoRoute", "InvalidQuery", "NotJson"}

\* bodies of the non-2xx answers: an error code, or no JSON at all
ErrorBodies == {"NoRoute", "InvalidQuery", "NotJson"}

\* a Response of fetch; bodyUsed is set by the first json() or text()
\* (the routing service answers NoRoute with HTTP 400 only)
RouteResponses ==
  {r \in [status : Statuses, body : Bodies, bodyUsed : {FALSE}] :
     /\ r.status \notin 200..299 => r.body \in ErrorBodies
     /\ r.body = "NoRoute" => r.status = 400}

NoResponse == [status |-> 0, body |-> "none", bodyUsed |-> FALSE]

\* response.ok
ResponseOk(r) == r.status \in 200..299

\* JSON.parse succeeds on the body
IsJson(body) == body # "NotJson"

\* the code field of the parsed body
Code(body) == IF body = "OkNoRoutes" THEN "Ok" ELSE body

\* data.routes && data.routes.length > 0
HasRoutes(body) == body = "Ok"

\* messages of the errors getRouteOSRM throws
MsgNoRouteAfterSnap == "No route found even after snapping to nearest roads."
MsgFailedToFetchRoute == "Failed to fetch route from OSRM"
MsgNoRouteByOSRM == "No route found by OSRM"
\* TypeError of text() on a body that json() has read
MsgBodyUsed == "body stream already read"
\* SyntaxError of json() on a body that is no JSON
MsgSyntaxError == "Unexpected token in JSON"
\* TypeError of a fetch that got no response, as the browsers word it
NetworkErrorMessages ==
  {"Failed to fetch", "NetworkError when attempting to fetch resource.", "Load failed"}

Pending == [kind |-> "pending", message |-> "none"]
Returned == [kind |-> "return", message |-> "none"]
Thrown(m) == [kind |-> "throw", message |-> m]

\* answers of the nearest endpoint: the fetch rejects, a non-2xx response, a body that
\* is no JSON, a body without a usable waypoint, a body with a waypoint
SnapKinds == {"reject", "notok", "notjson", "nowaypoint", "waypoint"}

\* an answer of the nearest endpoint: its kind, and the location of its first waypoint
SnapReply(kind, location) == [kind |-> kind, location |-> location]

\* no snapToRoad call was made; a call was made and is not answered yet
NoSnap == SnapReply("none", [lat |-> -1, lng |-> -1])
PendingSnap == SnapReply("pending", [lat |-> -1, lng |-> -1])

\* mutant of snapToRoad: a failed lookup resolves to the zero coordinate
snapToRoadZero(point, kind, location) ==
  IF kind = "waypoint" THEN location ELSE [lat |-> 0, lng |-> 0]

\* const snapToRoad = async (point) => { ... }: the value it resolves to for an answer
snapToRoad(point, kind, location) ==
  IF kind = "waypoint" THEN location ELSE point

\* mutant of CoordsChanged: only the start point is compared
CoordsChangedStartOnly(snappedStart, snappedEnd, s, e) ==
  \/ snappedStart.lat # s.lat
  \/ snappedStart.lng # s.lng

\* snappedStart.lat !== start.lat || snappedStart.lng !== start.lng ||
\* snappedEnd.lat !== end.lat || snappedEnd.lng !== end.lng
CoordsChanged(snappedStart, snappedEnd, s, e) ==
  \/ snappedStart.lat # s.lat
  \/ snappedStart.lng # s.lng
  \/ snappedEnd.lat # e.lat
  \/ snappedEnd.lng # e.lng

\* the arguments of the retried call: fetchRouteData(snappedStart, snappedEnd)
RetryArgs(snappedStart, snappedEnd, s, e) == [start |-> snappedStart, end |-> snappedEnd]

\* if (!response.ok && response.status === 400): the fallback block is entered
EntersFallback(r) == ~ResponseOk(r) /\ r.status = 400

\* errorData.code === 'NoRoute' after await response.json()
ReportsNoRoute(r) == EntersFallback(r) /\ IsJson(r.body) /\ Code(r.body) = "NoRoute"

\* the error thrown after try { JSON.parse; if NoRoute throw ... } catch(e) { }:
\* the catch swallows the NoRoute error thrown inside its own try block
ErrorOfFailedResponse(body) ==
  LET thrownInTry == IF ~IsJson(body) THEN MsgSyntaxError
                     ELSE IF Code(body) = "NoRoute" THEN MsgNoRouteAfterSnap
                     ELSE "none"
      \* catch(e) { /* ignore parse error if body is not JSON */ }
      leavesCatch == IF thrownInTry = "none" THEN thrownInTry ELSE "none"
  IN IF leavesCatch # "none" THEN Thrown(leavesCatch) ELSE Thrown(MsgFailedToFetchRoute)

\* the final check on the response and the construction of the result
FinalOutcome(r) ==
  IF ~ResponseOk(r)
  THEN IF r.bodyUsed THEN Thrown(MsgBodyUsed) ELSE ErrorOfFailedResponse(r.body)
  ELSE IF ~IsJson(r.body) THEN Thrown(MsgSyntaxError)
  ELSE IF Code(r.body) # "Ok" \/ ~HasRoutes(r.body) THEN Thrown(MsgNoRouteByOSRM)
  ELSE Returned

\* export const getRouteOSRM = async (start, end) => { let response = await fetchRouteData(start, end);
CallGetRouteOSRM ==
  /\ pc = "idle"
  /\ pc' = "route1"
  /\ routeCalls' = Append(routeCalls, [start |-> start, end |-> end])
  /\ UNCHANGED <<start, end, response, firstResponse, snapCalls, snapReply, snapped, outcome>>
  /\ UNCHANGED restOfRoute

\* the first fetch rejects: the error leaves getRouteOSRM
FirstRouteRejects ==
  /\ pc = "route1"
  /\ \E m \in NetworkErrorMessages : outcome' = Thrown(m)
  /\ pc' = "done"
  /\ firstResponse' = [NoResponse EXCEPT !.body = "rejected"]
  /\ UNCHANGED <<start, end, response, routeCalls, snapCalls, snapReply, snapped>>
  /\ UNCHANGED restOfRoute

\* the first fetch answers; on HTTP 400 the body is read with json(), and on NoRoute
\* both snapToRoad calls are started (Promise.all)
FirstRouteResponds ==
  /\ pc = "route1"
  /\ \E r \in RouteResponses :
       /\ firstResponse' = r
       /\ response' = [r EXCEPT !.bodyUsed = EntersFallback(r)]
       /\ IF ReportsNoRoute(r)
          THEN /\ pc' = "snap"
               /\ snapCalls' = snapCalls \o <<start, end>>
               /\ snapReply' = <<PendingSnap, PendingSnap>>
          ELSE /\ pc' = "final"
               /\ UNCHANGED <<snapCalls, snapReply>>
  /\ UNCHANGED <<start, end, routeCalls, snapped, outcome>>
  /\ UNCHANGED restOfRoute

\* the nearest endpoint answers one of the two snapToRoad calls
SnapResponds ==
  /\ pc = "snap"
  /\ \E i \in 1..2, kind \in SnapKinds, location \in Points :
       /\ snapReply[i] = PendingSnap
       /\ kind # "waypoint" => location = snapCalls[i]
       /\ snapReply' = [snapReply EXCEPT ![i] = SnapReply(kind, location)]
       /\ snapped' = [snapped EXCEPT ![i] = snapToRoad(snapCalls[i], kind, location)]
  /\ UNCHANGED <<pc, start, end, response, firstResponse, routeCalls, snapCalls, outcome>>
  /\ UNCHANGED restOfRoute

\* both snaps are settled: retry only if the coordinates changed
AfterSnap ==
  /\ pc = "snap"
  /\ snapReply[1] # PendingSnap /\ snapReply[2] # PendingSnap
  /\ IF CoordsChanged(snapped[1], snapped[2], start, end)
     THEN /\ routeCalls' = Append(routeCalls, RetryArgs(snapped[1], snapped[2], start, end))
          /\ pc' = "route2"
     ELSE /\ pc' = "final"
          /\ UNCHANGED routeCalls
  /\ UNCHANGED <<start, end, response, firstResponse, snapCalls, snapReply, snapped, outcome>>
  /\ UNCHANGED restOfRoute

\* the retried fetch rejects: catch (e) logs it and response stays the first response
SecondRouteRejects ==
  /\ pc = "route2"
  /\ pc' = "final"
  /\ UNCHANGED <<start, end, response, firstResponse, routeCalls, snapCalls, snapReply, snapped, outcome>>
  /\ UNCHANGED restOfRoute

\* mutant of SecondRouteResponds: a retry that reports no route snaps and retries again
SecondRouteRespondsRetrying ==
  /\ pc = "route2"
  /\ \E r \in RouteResponses :
       /\ response' = [r EXCEPT !.bodyUsed = EntersFallback(r)]
       /\ IF ReportsNoRoute(r)
          THEN /\ pc' = "snap"
               /\ snapCalls' = snapCalls \o <<snapped[1], snapped[2]>>
               /\ snapReply' = <<PendingSnap, PendingSnap>>
          ELSE /\ pc' = "final"
               /\ UNCHANGED <<snapCalls, snapReply>>
  /\ UNCHANGED <<start, end, firstResponse, routeCalls, snapped, outcome>>
  /\ UNCHANGED restOfRoute

\* response = await fetchRouteData(snappedStart, snappedEnd)
SecondRouteResponds ==
  /\ pc = "route2"
  /\ \E r \in RouteResponses : response' = r
  /\ pc' = "final"
  /\ UNCHANGED <<start, end, firstResponse, routeCalls, snapCalls, snapReply, snapped, outcome>>
  /\ UNCHANGED restOfRoute

\* the final check on the response after any retry
FinalCheck ==
  /\ pc = "final"
  /\ outcome' = FinalOutcome(response)
  /\ pc' = "done"
  /\ UNCHANGED <<start, end, response, firstResponse, routeCalls, snapCalls, snapReply, snapped>>
  /\ UNCHANGED restOfRoute

RouteInit ==
  /\ pc = "idle"
  /\ start \in Points
  /\ end \in Points
  /\ response = NoResponse
  /\ firstResponse = NoResponse
  /\ routeCalls = <<>>
  /\ snapCalls = <<>>
  /\ snapReply = <<NoSnap, NoSnap>>
  /\ snapped = <<start, end>>
  /\ outcome = Pending

RouteNext ==
  \/ CallGetRouteOSRM
  \/ FirstRouteRejects
  \/ FirstRouteResponds
  \/ SnapResponds
  \/ AfterSnap
  \/ SecondRouteRejects
  \/ SecondRouteResponds
  \/ FinalCheck

(***************************************************************************)
(* calculatePrice (src/components/customer/CustomerView.tsx)               *)
(***************************************************************************)
\* enum VehicleType
VehicleType == {"Regular", "AC", "Public", "VIP", "Microbus", "Motorcycle"}

\* multipliers are held in tenths: 12 stands for 1.2
MultiplierScale == 10

\* defaultSettings.vehicle_multipliers
DefaultMultipliers ==
  [v \in VehicleType |->
     CASE v = "Regular" -> 10
       [] v = "AC" -> 12
       [] v = "Public" -> 8
       [] v = "VIP" -> 20
       [] v = "Microbus" -> 15
       [] v = "Motorcycle" -> 6]

\* a settings row that offers two classes only
TwoClassMultipliers == [v \in {"Regular", "VIP"} |-> IF v = "Regular" THEN 10 ELSE 20]

\* a settings row that offers VIP only
VipOnlyMultipliers == [v \in {"VIP"} |-> 20]

MultiplierTables == {DefaultMultipliers, TwoClassMultipliers, VipOnlyMultipliers}

BaseFares == {0, 2000}
PerKmFares == {0, 500}

\* the pricing fields of AppSettings
PricingConfigs ==
  [base_fare_syp : BaseFares, per_km_fare_syp : PerKmFares, vehicle_multipliers : MultiplierTables]

\* route distances in metres
Distances == (0..MaxDistance) \cup {1000, 5000}

\* mutant of MathRound: Math.floor
MathFloor(n, d) == n \div d

\* Math.round of the rational n / d (d > 0): the nearest integer, ties towards +Infinity
MathRound(n, d) == (2 * n + d) \div (2 * d)

\* settings.vehicle_multipliers[vehicle] || 1, in tenths
MultiplierOf(cfg, vehicle) ==
  IF vehicle \in DOMAIN cfg.vehicle_multipliers /\ cfg.vehicle_multipliers[vehicle] # 0
  THEN cfg.vehicle_multipliers[vehicle]
  ELSE MultiplierScale

\* mutant of calculatePrice: the distance fare is subtracted from the base fare
calculatePriceSubtracting(cfg, dist, vehicle) ==
  IF dist = 0 THEN 0
  ELSE MathRound((cfg.base_fare_syp * 1000 - dist * cfg.per_km_fare_syp) * MultiplierOf(cfg, vehicle),
                 1000 * MultiplierScale)

\* mutant of calculatePrice: the fare is divided by the multiplier
calculatePriceDividing(cfg, dist, vehicle) ==
  IF dist = 0 THEN 0
  ELSE MathRound((cfg.base_fare_syp * 1000 + dist * cfg.per_km_fare_syp) * MultiplierScale,
                 1000 * MultiplierOf(cfg, vehicle))

\* const calculatePrice = (vehicle) => { ... } on the settings and the distance of the state
calculatePrice(cfg, dist, vehicle) ==
  IF dist = 0 THEN 0
  ELSE MathRound((cfg.base_fare_syp * 1000 + dist * cfg.per_km_fare_syp) * MultiplierOf(cfg, vehicle),
                 1000 * MultiplierScale)

NoQuote == [d |-> -1, v |-> "none", p |-> -1]

\* setDistance(routeData.distance)
SetDistance ==
  /\ \E d \in Distances : distance' = d
  /\ distance' # distance
  /\ UNCHANGED <<settings, quote, prevQuote>>
  /\ UNCHANGED restOfFare

\* calculatePrice(vehicleKey) is applied
Quote ==
  /\ \E v \in VehicleType :
       quote' = [d |-> distance, v |-> v, p |-> calculatePrice(settings, distance, v)]
  /\ prevQuote' = quote
  /\ UNCHANGED <<settings, distance>>
  /\ UNCHANGED restOfFare

FareInit ==
  /\ settings \in PricingConfigs
  /\ distance = 0
  /\ quote = NoQuote
  /\ prevQuote = NoQuote

FareNext ==
  \/ SetDistance
  \/ Quote

(***************************************************************************)
(* CustomerView (src/components/customer/CustomerView.tsx)                 *)
(***************************************************************************)
\* the two address fields: each has its query, its suggestion list and its place
Fields == {"pickup", "dropoff"}

\* texts typed into an address input
TypedTexts == {"", "da", "dam"}

\* feature.properties.label of a suggestion; data.display_name of a reverse geocoding
\* (or, when that is empty, the coordinates as text)
FeatureLabel == "Damascus"
\* the address given with the position fix on mount
MyLocationAddress == "my current location"
\* the fallback address set when reverse geocoding fails
PlaceholderAddress == "location selected on the map"

\* what reverseGeocodeNominatim resolves to
GeocodedAddresses == {FeatureLabel}

\* the coordinates the customer's places take: one with a zero latitude, one without
CustomerPoints == {[lat |-> 0, lng |-> 1], [lat |-> 1, lng |-> 1]}

\* null in useState<{coords, address} | null>(null)
NullPlace == [coords |-> [lat |-> -1, lng |-> -1], address |-> "null"]

\* { coords, address }
Place(coords, address) == [coords |-> coords, address |-> address]

\* lat: null, lng: null of useGeolocation
NoFix == [lat |-> -1, lng |-> -1]

\* lat && lng: both are numbers other than 0
Truthy(fix) == fix # NoFix /\ fix.lat # 0 /\ fix.lng # 0

\* useState<any[]>([]): an empty list that no fetch has set
NoSuggestions == [fetch |-> 0, query |-> "", length |-> 0]

\* no route is displayed: setRoute([]), setDuration(0)
NoRoute == [start |-> NoFix, end |-> NoFix, duration |-> 0]

\* the userMessage values of calculateRoute, and routeError null
NoRouteError == "null"
RouteNotFoundMessage == "no route between the two points"
RouteFailedMessage == "could not compute the route"

\* what a successful getRouteOSRM returns: distance in metres, duration in seconds
RouteResults ==
  { [distance |-> 0, duration |-> 0],
    [distance |-> 5000, duration |-> 600] }

\* the messages of the errors getRouteOSRM throws
ThrownMessages ==
  {MsgFailedToFetchRoute, MsgNoRouteByOSRM, MsgBodyUsed, MsgSyntaxError} \cup NetworkErrorMessages

\* error.message.includes('No route found') || error.message.includes('Failed to fetch')
IncludesNoRouteOrFailed(m) ==
  m \in {MsgNoRouteAfterSnap, MsgNoRouteByOSRM, MsgFailedToFetchRoute, "Failed to fetch"}

\* let userMessage = ...; if (...) userMessage = ...
UserMessage(m) == IF IncludesNoRouteOrFailed(m) THEN RouteNotFoundMessage ELSE RouteFailedMessage

NoTripRequest == [vehicle |-> "none", offered |-> FALSE, status |-> "none"]

restOfCustomer == <<driverVars, routeVars, settings, quote, prevQuote, appVars>>

CustomerInit ==
  /\ geo = NoFix
  /\ orsApiKey \in BOOLEAN
  /\ pickup = NullPlace
  /\ dropoff = NullPlace
  /\ query = [f \in Fields |-> ""]
  /\ suggestions = [f \in Fields |-> NoSuggestions]
  /\ suggestTimer = [f \in Fields |-> TRUE]
  /\ fetches = {}
  /\ issued = [f \in Fields |-> 0]
  /\ nextFetch = 1
  /\ geocodes = <<>>
  /\ route = NoRoute
  /\ routeError = NoRouteError
  /\ tripStatus = "idle"
  /\ isCalculatingRoute = FALSE
  /\ routeTimer = TRUE
  /\ resolutions = {}
  /\ issuedRoute = 0
  /\ nextResolution = 1
  /\ selectedVehicle = "Regular"
  /\ confirmTimers = 0
  /\ lastTripRequest = NoTripRequest

\* pickup or dropoff, by field
PlaceOf(f) == IF f = "pickup" THEN pickup ELSE dropoff

\* {tripStatus === 'idle' || tripStatus === 'pricing' ? ( inputs ) : ( message )}
InputsShown == tripStatus \in {"idle", "pricing"}

\* the suggestion effect of a field runs again when its query, the address of its
\* place or fetchSuggestions (lat, lng, settings.ors_api_key) changes; it clears the
\* pending timer and sets a new one
SuggestEffect(f, newQuery, newPlace, fixChanged) ==
  IF newQuery # query[f] \/ newPlace.address # PlaceOf(f).address \/ fixChanged
  THEN TRUE
  ELSE suggestTimer[f]

\* setPickup / setDropoff with a new object, then the render: the route effect runs
\* again (pickup, dropoff, calculateRoute changed) and sets a new timer
SetPlace(f, place) ==
  /\ pickup' = IF f = "pickup" THEN place ELSE pickup
  /\ dropoff' = IF f = "dropoff" THEN place ELSE dropoff
  /\ routeTimer' = (place # NullPlace \/ PlaceOf(f) # NullPlace \/ routeTimer)

\* what the address handlers leave alone
routeFlowVars ==
  <<route, routeError, tripStatus, isCalculatingRoute, resolutions, issuedRoute, nextResolution,
    selectedVehicle, confirmTimers, lastTripRequest, distance>>

\* mutant of handleSetRejected: a failed reverse geocoding leaves the place as it was
handleSetRejectedDropping(f, coords) ==
  /\ UNCHANGED <<pickup, dropoff, routeTimer, query, suggestions, suggestTimer>>

\* handleSetPickup / handleSetDropoff, the catch branch: reverse geocoding failed
handleSetRejected(f, coords) ==
  /\ SetPlace(f, Place(coords, PlaceholderAddress))
  /\ query' = [query EXCEPT ![f] = PlaceholderAddress]
  /\ suggestTimer' =
       [suggestTimer EXCEPT
          ![f] = SuggestEffect(f, PlaceholderAddress, Place(coords, PlaceholderAddress), FALSE)]
  /\ UNCHANGED suggestions

\* handleSetPickup / handleSetDropoff, the try branch: the address is given or geocoded
handleSetResolved(f, coords, addr) ==
  /\ SetPlace(f, Place(coords, addr))
  /\ query' = [query EXCEPT ![f] = addr]
  /\ suggestions' = [suggestions EXCEPT ![f] = NoSuggestions]
  /\ suggestTimer' =
       [suggestTimer EXCEPT ![f] = SuggestEffect(f, addr, Place(coords, addr), FALSE)]

\* the position fix arrives: if (lat && lng) { setMapCenter; if (!pickup) handleSetPickup(...) };
\* fetchSuggestions changes with lat and lng, so both suggestion effects run again
LocationFix ==
  /\ geo = NoFix
  /\ \E c \in CustomerPoints :
       /\ geo' = c
       /\ IF Truthy(c) /\ pickup = NullPlace
          THEN /\ pickup' = Place(c, MyLocationAddress)
               /\ query' = [query EXCEPT !["pickup"] = MyLocationAddress]
               /\ suggestions' = [suggestions EXCEPT !["pickup"] = NoSuggestions]
               /\ routeTimer' = TRUE
          ELSE UNCHANGED <<pickup, query, suggestions, routeTimer>>
  /\ suggestTimer' = [f \in Fields |-> TRUE]
  /\ UNCHANGED <<orsApiKey, dropoff, fetches, issued, nextFetch, geocodes>>
  /\ UNCHANGED <<routeFlowVars, restOfCustomer>>

\* the reverse geocoding rejects: no response, or a non-2xx response
Rejected == "rejected"

\* a call of handleSetPickup / handleSetDropoff without an address awaits the geocoder;
\* the call in flight is kept with the answer the geocoder is going to give
StartGeocode(f, coords) ==
  /\ Len(geocodes) < MaxGeocodes
  /\ \E reply \in GeocodedAddresses \cup {Rejected} :
       geocodes' = Append(geocodes, [field |-> f, coords |-> coords, reply |-> reply])
  /\ UNCHANGED <<geo, orsApiKey, pickup, dropoff, query, suggestions, suggestTimer, fetches,
                 issued, nextFetch, routeTimer>>
  /\ UNCHANGED <<routeFlowVars, restOfCustomer>>

\* <button onClick={() => lat && lng && handleSetPickup([lat,lng])}>
ClickLocate ==
  /\ InputsShown
  /\ Truthy(geo)
  /\ StartGeocode("pickup", geo)

\* onDragEnd of the marker of a place: handleSetPickup / handleSetDropoff([lat, lng])
DragMarker ==
  \E f \in Fields, c \in CustomerPoints :
    /\ PlaceOf(f) # NullPlace
    /\ StartGeocode(f, c)

\* a sequence without its i-th element
RemoveAt(seq, i) == SubSeq(seq, 1, i - 1) \o SubSeq(seq, i + 1, Len(seq))

\* reverseGeocodeNominatim resolves
GeocodeResponds ==
  \E i \in 1..Len(geocodes) :
    /\ geocodes[i].reply # Rejected
    /\ handleSetResolved(geocodes[i].field, geocodes[i].coords, geocodes[i].reply)
    /\ geocodes' = RemoveAt(geocodes, i)
    /\ UNCHANGED <<geo, orsApiKey, fetches, issued, nextFetch>>
    /\ UNCHANGED <<routeFlowVars, restOfCustomer>>

\* reverseGeocodeNominatim rejects (no response, or a non-2xx response)
GeocodeFails ==
  \E i \in 1..Len(geocodes) :
    /\ geocodes[i].reply = Rejected
    /\ handleSetRejected(geocodes[i].field, geocodes[i].coords)
    /\ geocodes' = RemoveAt(geocodes, i)
    /\ UNCHANGED <<geo, orsApiKey, fetches, issued, nextFetch>>
    /\ UNCHANGED <<routeFlowVars, restOfCustomer>>

\* mutant of TypeQuery: the change of the query starts the fetch at once, without a timer
TypeQueryUndebounced ==
  \E f \in Fields, t \in TypedTexts :
    /\ InputsShown
    /\ orsApiKey
    /\ t # query[f]
    /\ nextFetch <= MaxFetches
    /\ query' = [query EXCEPT ![f] = t]
    /\ fetches' = fetches \cup {[id |-> nextFetch, field |-> f, query |-> t]}
    /\ issued' = [issued EXCEPT ![f] = nextFetch]
    /\ nextFetch' = nextFetch + 1
    /\ UNCHANGED <<geo, orsApiKey, pickup, dropoff, suggestions, suggestTimer, geocodes, routeTimer>>
    /\ UNCHANGED <<routeFlowVars, restOfCustomer>>

\* onChange of an address input (disabled={!isAddressSearchAvailable}): setPickupQuery
TypeQuery ==
  \E f \in Fields, t \in TypedTexts :
    /\ InputsShown
    /\ orsApiKey
    /\ t # query[f]
    /\ query' = [query EXCEPT ![f] = t]
    /\ suggestTimer' = [suggestTimer EXCEPT ![f] = TRUE]
    /\ UNCHANGED <<geo, orsApiKey, pickup, dropoff, suggestions, fetches, issued, nextFetch,
                   geocodes, routeTimer>>
    /\ UNCHANGED <<routeFlowVars, restOfCustomer>>

\* fetchSuggestions(query, setter) up to its await: no call without an API key
fetchSuggestions(f) ==
  IF ~orsApiKey
  THEN UNCHANGED <<fetches, issued, nextFetch>>
  ELSE /\ nextFetch <= MaxFetches
       /\ fetches' = fetches \cup {[id |-> nextFetch, field |-> f, query |-> query[f]]}
       /\ issued' = [issued EXCEPT ![f] = nextFetch]
       /\ nextFetch' = nextFetch + 1

\* the timer of a suggestion effect fires:
\* if (pickupQuery && pickupQuery !== pickup?.address) fetchSuggestions(...)
SuggestTimerFires ==
  \E f \in Fields :
    /\ suggestTimer[f]
    /\ suggestTimer' = [suggestTimer EXCEPT ![f] = FALSE]
    /\ IF query[f] # "" /\ query[f] # PlaceOf(f).address
       THEN fetchSuggestions(f)
       ELSE UNCHANGED <<fetches, issued, nextFetch>>
    /\ UNCHANGED <<geo, orsApiKey, pickup, dropoff, query, suggestions, geocodes, routeTimer>>
    /\ UNCHANGED <<routeFlowVars, restOfCustomer>>

\* mutant of ApplyFeatures: only the result of the last fetch issued for the field is applied
ApplyFeaturesOfLatest(x, n) ==
  IF x.id = issued[x.field]
  THEN [suggestions EXCEPT ![x.field] = [fetch |-> x.id, query |-> x.query, length |-> n]]
  ELSE suggestions

\* setter(features) after await getAutocomplete(...)
ApplyFeatures(x, n) ==
  [suggestions EXCEPT ![x.field] = [fetch |-> x.id, query |-> x.query, length |-> n]]

\* getAutocomplete resolves with n features
AutocompleteResponds ==
  \E x \in fetches, n \in 0..1 :
    /\ suggestions' = ApplyFeatures(x, n)
    /\ fetches' = fetches \ {x}
    /\ UNCHANGED <<geo, orsApiKey, pickup, dropoff, query, suggestTimer, issued, nextFetch,
                   geocodes, routeTimer>>
    /\ UNCHANGED <<routeFlowVars, restOfCustomer>>

\* getAutocomplete rejects: the catch sets a notification only
AutocompleteFails ==
  \E x \in fetches :
    /\ fetches' = fetches \ {x}
    /\ UNCHANGED <<geo, orsApiKey, pickup, dropoff, query, suggestions, suggestTimer, issued,
                   nextFetch, geocodes, routeTimer>>
    /\ UNCHANGED <<routeFlowVars, restOfCustomer>>

\* onSuggestionClick of a listed feature: handleSetPickup / handleSetDropoff(coords, label)
ClickSuggestion ==
  \E f \in Fields, c \in CustomerPoints :
    /\ InputsShown
    /\ suggestions[f].length > 0
    /\ handleSetResolved(f, c, FeatureLabel)
    /\ UNCHANGED <<geo, orsApiKey, fetches, issued, nextFetch, geocodes>>
    /\ UNCHANGED <<routeFlowVars, restOfCustomer>>

\* onClear of an address input (the X is rendered when the input has a value):
\* setPickup(null); setPickupQuery(''); setRoute([]); setDistance(0); setDuration(0);
\* setTripStatus('idle'); setRouteError(null)
onClear ==
  \E f \in Fields :
    /\ InputsShown
    /\ query[f] # ""
    /\ SetPlace(f, NullPlace)
    /\ query' = [query EXCEPT ![f] = ""]
    /\ suggestTimer' = [suggestTimer EXCEPT ![f] = TRUE]
    /\ route' = NoRoute
    /\ distance' = 0
    /\ tripStatus' = "idle"
    /\ routeError' = NoRouteError
    /\ UNCHANGED <<geo, orsApiKey, suggestions, fetches, issued, nextFetch, geocodes>>
    /\ UNCHANGED <<isCalculatingRoute, resolutions, issuedRoute, nextResolution, selectedVehicle,
                   confirmTimers, lastTripRequest, restOfCustomer>>

\* what the route flow leaves alone
addressVars ==
  <<geo, orsApiKey, pickup, dropoff, query, suggestions, suggestTimer, fetches, issued, nextFetch,
    geocodes>>

\* the timer of the route effect fires: calculateRoute() up to await getRouteOSRM(...)
calculateRoute ==
  /\ routeTimer
  /\ routeTimer' = FALSE
  /\ IF pickup # NullPlace /\ dropoff # NullPlace
     THEN /\ nextResolution <= MaxResolutions
          /\ isCalculatingRoute' = TRUE
          /\ routeError' = NoRouteError
          /\ route' = NoRoute
          /\ distance' = 0
          /\ resolutions' =
               resolutions \cup {[id |-> nextResolution, start |-> pickup.coords, end |-> dropoff.coords]}
          /\ issuedRoute' = nextResolution
          /\ nextResolution' = nextResolution + 1
     ELSE UNCHANGED <<isCalculatingRoute, routeError, route, distance, resolutions, issuedRoute,
                      nextResolution>>
  /\ UNCHANGED <<tripStatus, selectedVehicle, confirmTimers, lastTripRequest>>
  /\ UNCHANGED <<addressVars, restOfCustomer>>

\* getRouteOSRM returns: setRoute; setRouteType; setDistance; setDuration;
\* setTripStatus('pricing'); finally setIsCalculatingRoute(false)
ResolutionReturns ==
  \E x \in resolutions, r \in RouteResults :
    /\ route' = [start |-> x.start, end |-> x.end, duration |-> r.duration]
    /\ distance' = r.distance
    /\ tripStatus' = "pricing"
    /\ isCalculatingRoute' = FALSE
    /\ resolutions' = resolutions \ {x}
    /\ UNCHANGED <<routeError, routeTimer, issuedRoute, nextResolution, selectedVehicle,
                   confirmTimers, lastTripRequest>>
    /\ UNCHANGED <<addressVars, restOfCustomer>>

\* getRouteOSRM throws: setRouteError(userMessage); setTripStatus('pricing');
\* finally setIsCalculatingRoute(false)
ResolutionThrows ==
  \E x \in resolutions, m \in ThrownMessages :
    /\ routeError' = UserMessage(m)
    /\ tripStatus' = "pricing"
    /\ isCalculatingRoute' = FALSE
    /\ resolutions' = resolutions \ {x}
    /\ UNCHANGED <<route, distance, routeTimer, issuedRoute, nextResolution, selectedVehicle,
                   confirmTimers, lastTripRequest>>
    /\ UNCHANGED <<addressVars, restOfCustomer>>

\* the panel with the distance, the vehicle classes and the request button is rendered
QuotePanelShown ==
  /\ tripStatus = "pricing"
  /\ routeError = NoRouteError
  /\ ~settingsLoading
  /\ ~isCalculatingRoute
  /\ distance > 0

\* a vehicle class gets a button with its price: not
\* if (!Icon || !settings || settings.vehicle_multipliers[vehicleKey] === undefined) return null
VehicleOffered(v) == v \in DOMAIN settings.vehicle_multipliers

\* the prices the panel shows: formatSYP(calculatePrice(vehicleKey)) on each button
ShownQuotes ==
  IF QuotePanelShown
  THEN [v \in {w \in VehicleType : VehicleOffered(w)} |-> calculatePrice(settings, distance, v)]
  ELSE << >>

\* onClick={() => setSelectedVehicle(vehicleKey)}
SelectVehicle ==
  \E v \in VehicleType :
    /\ QuotePanelShown
    /\ VehicleOffered(v)
    /\ v # selectedVehicle
    /\ selectedVehicle' = v
    /\ UNCHANGED <<route, routeError, tripStatus, isCalculatingRoute, routeTimer, resolutions,
                   issuedRoute, nextResolution, confirmTimers, lastTripRequest, distance>>
    /\ UNCHANGED <<addressVars, restOfCustomer>>

\* const handleRequestTrip = () => { setTripStatus('requested'); ...; setTimeout(..., 5000) }
handleRequestTrip ==
  /\ QuotePanelShown
  /\ confirmTimers < MaxTimers
  /\ tripStatus' = "requested"
  /\ confirmTimers' = confirmTimers + 1
  /\ lastTripRequest' =
       [vehicle |-> selectedVehicle, offered |-> VehicleOffered(selectedVehicle), status |-> tripStatus]
  /\ UNCHANGED <<route, routeError, isCalculatingRoute, routeTimer, resolutions, issuedRoute,
                 nextResolution, selectedVehicle, distance>>
  /\ UNCHANGED <<addressVars, restOfCustomer>>

\* setTimeout(() => { setTripStatus('confirmed'); ... }, 5000): the mock driver acceptance
ConfirmTimer ==
  /\ confirmTimers > 0
  /\ confirmTimers' = confirmTimers - 1
  /\ tripStatus' = "confirmed"
  /\ UNCHANGED <<route, routeError, isCalculatingRoute, routeTimer, resolutions, issuedRoute,
                 nextResolution, selectedVehicle, lastTripRequest, distance>>
  /\ UNCHANGED <<addressVars, restOfCustomer>>

\* the address fields: the customer types, clears and picks suggestions, and moves no marker
SuggestNext ==
  \/ LocationFix
  \/ TypeQuery
  \/ SuggestTimerFires
  \/ AutocompleteResponds
  \/ AutocompleteFails
  \/ ClickSuggestion
  \/ onClear
  \/ calculateRoute
  \/ ResolutionReturns
  \/ ResolutionThrows

\* the route flow: the customer picks suggestions already listed, moves markers and
\* clears, types no more and requests no trip
CustomerNext ==
  \/ LocationFix
  \/ ClickLocate
  \/ DragMarker
  \/ GeocodeResponds
  \/ GeocodeFails
  \/ SuggestTimerFires
  \/ ClickSuggestion
  \/ onClear
  \/ calculateRoute
  \/ ResolutionReturns
  \/ ResolutionThrows

\* the request flow: the customer picks suggestions already listed, clears, selects a
\* class and requests a trip, and moves no marker
RequestNext ==
  \/ SuggestTimerFires
  \/ ClickSuggestion
  \/ onClear
  \/ calculateRoute
  \/ ResolutionReturns
  \/ ResolutionThrows
  \/ SelectVehicle
  \/ handleRequestTrip
  \/ ConfirmTimer

(***************************************************************************)
(* App and SettingsProvider (src/constants.ts, src/contexts/SettingsContext.tsx, *)
(* src/components/auth/Login.tsx, src/components/admin/AppSettings.tsx)    *)
(***************************************************************************)
\* user === null; the roles renderView switches on; the users, by role and is_verified
NoUser == [role |-> "none", is_verified |-> FALSE]
UserRoles == {"customer", "driver", "admin"}
Users == [role : UserRoles, is_verified : BOOLEAN]

\* const renderView = () => { ... }: the screen the App shows (appInitialization is
\* Promise.resolve(), so the spinner and the init error screen are passed at once)
renderView ==
  IF user = NoUser THEN "login"
  ELSE IF ~user.is_verified THEN "activation"
  ELSE user.role

\* the screen renderView shows for a user
ViewOf(u) ==
  IF u = NoUser THEN "login"
  ELSE IF ~u.is_verified THEN "activation"
  ELSE u.role

\* the form of AppSettings is not mounted; no row was loaded yet
NoForm == [base_fare_syp |-> -1, per_km_fare_syp |-> -1, vehicle_multipliers |-> << >>]
NoRow == NoForm

\* the values typed into the number inputs of the form
FormValues == {3000}
FormFields == {"base_fare_syp", "per_km_fare_syp"}

\* the user was set by the sign-in, not by an activation
BySignIn == [by |-> "signin", code |-> "none", stored |-> "none"]

\* the codes typed into the activation screen, and the activation_code a users row holds
Codes == {"123456", "654321"}
StoredCodes == Codes \cup {"null"}

\* error === null; the prefixes of the messages fetchSettings sets
NoSettingsError == "none"
SettingsErrors == {"SETUP_REQUIRED", "SCHEMA_OUTDATED", "NETWORK_ERROR"}

\* export const defaultSettings: it has no ors_api_key
defaultSettings ==
  [base_fare_syp |-> 2000, per_km_fare_syp |-> 500, vehicle_multipliers |-> DefaultMultipliers]

\* the rows of the settings table that getSettings returns: one with an ors_api_key
\* that offers Regular and VIP, and one without a key that offers VIP only
SettingsRows ==
  { [row |-> [base_fare_syp |-> 2000, per_km_fare_syp |-> 500,
              vehicle_multipliers |-> TwoClassMultipliers],
     ors_api_key |-> TRUE],
    [row |-> [base_fare_syp |-> 2000, per_km_fare_syp |-> 500,
              vehicle_multipliers |-> VipOnlyMultipliers],
     ors_api_key |-> FALSE] }

\* the state of the customer view that a change of the settings leaves alone
viewVars ==
  <<geo, pickup, dropoff, query, suggestions, fetches, issued, nextFetch, geocodes, routeTimer,
    routeFlowVars>>

\* setSettings(row) and the render: fetchSuggestions is a new function when
\* settings.ors_api_key changed, and the suggestion effects of a mounted customer view
\* run again
setSettings(row, key) ==
  /\ settings' = row
  /\ orsApiKey' = key
  /\ suggestTimer' = IF renderView = "customer" /\ key # orsApiKey
                     THEN [f \in Fields |-> TRUE]
                     ELSE suggestTimer
  /\ form' = IF renderView = "admin" /\ (row # defaultSettings \/ settings # defaultSettings)
             THEN row
             ELSE form

\* const fetchSettings = async () => { setLoading(true); setError(null); ... up to the
\* await of checkSchemaVersion()
fetchSettings ==
  /\ settingsCalls.schema + settingsCalls.settings < MaxSettingsCalls
  /\ settingsLoading' = TRUE
  /\ settingsError' = NoSettingsError
  /\ settingsCalls' = [settingsCalls EXCEPT !.schema = @ + 1]

\* what checkSchemaVersion() gives: { is_up_to_date: true }, an error that includes
\* 'does not exist', another error or false, or a rejection
SchemaReplies == {"up_to_date", "does not exist", "outdated", "throws"}

\* fetchSettings from the answer of checkSchemaVersion() to the await of getSettings() or
\* to its return
SchemaCheckResponds ==
  \E reply \in SchemaReplies, own \in BOOLEAN :
    /\ IF own THEN saving = "schema"
              ELSE settingsCalls.schema > (IF saving = "schema" THEN 1 ELSE 0)
    /\ saving' = IF ~own THEN saving
                 ELSE IF reply = "up_to_date" THEN "settings" ELSE "idle"
    /\ IF reply = "up_to_date"
       THEN /\ settingsCalls' = [schema |-> settingsCalls.schema - 1,
                                 settings |-> settingsCalls.settings + 1]
            /\ UNCHANGED <<settings, orsApiKey, suggestTimer, form, settingsLoading,
                           settingsError>>
       ELSE /\ settingsCalls' = [settingsCalls EXCEPT !.schema = @ - 1]
            /\ settingsError' = CASE reply = "does not exist" -> "SETUP_REQUIRED"
                                  [] reply = "outdated" -> "SCHEMA_OUTDATED"
                                  [] reply = "throws" -> "NETWORK_ERROR"
            /\ setSettings(defaultSettings, FALSE)
            /\ settingsLoading' = FALSE
    /\ UNCHANGED <<user, saveCalls, activations, submitting, loadedRow, lastLogin, viewVars,
                   quote, prevQuote, driverVars, routeVars>>

\* fetchSettings from the answer of getSettings() to its end: a row, null or a rejection
GetSettingsResponds ==
  \E reply \in {"row", "null", "throws"}, own \in BOOLEAN :
    /\ IF own THEN saving = "settings"
              ELSE settingsCalls.settings > (IF saving = "settings" THEN 1 ELSE 0)
    /\ saving' = IF own THEN "idle" ELSE saving
    /\ settingsCalls' = [settingsCalls EXCEPT !.settings = @ - 1]
    /\ settingsLoading' = FALSE
    /\ CASE reply = "row" ->
              /\ \E data \in SettingsRows :
                   /\ setSettings(data.row, data.ors_api_key)
                   /\ loadedRow' = data.row
              /\ UNCHANGED settingsError
         [] reply = "null" ->
              /\ settingsError' = "SETUP_REQUIRED"
              /\ setSettings(defaultSettings, FALSE)
              /\ UNCHANGED loadedRow
         [] reply = "throws" ->
              /\ settingsError' = "NETWORK_ERROR"
              /\ setSettings(defaultSettings, FALSE)
              /\ UNCHANGED loadedRow
    /\ UNCHANGED <<user, saveCalls, activations, submitting, lastLogin, viewVars, quote,
                   prevQuote, driverVars, routeVars>>

\* Login renders its form: not the spinner of settingsLoading and not an error screen
LoginFormShown == user = NoUser /\ ~settingsLoading /\ settingsError = NoSettingsError

\* const handleRetry = async () => { ...; await refetchSettings(); ... } of the error
\* screens of Login
handleRetry ==
  /\ user = NoUser
  /\ ~settingsLoading
  /\ settingsError # NoSettingsError
  /\ fetchSettings
  /\ UNCHANGED <<user, saveCalls, saving, form, activations, submitting, loadedRow, lastLogin,
                 settings, customerVars, distance, quote, prevQuote, driverVars, routeVars>>

\* the handleSubmit calls in flight once their ActivationScreen is unmounted
Disowned(calls) == [i \in 1..Len(calls) |-> [calls[i] EXCEPT !.own = FALSE]]

\* setUser(u) and the render: the view of a role is mounted with its initial state when
\* renderView returns another component than before, and the state of the component it
\* replaces is dropped
setUser(u) ==
  /\ user' = u
  /\ IF ViewOf(u) = "customer" /\ renderView # "customer"
     THEN /\ geo' = NoFix
          /\ pickup' = NullPlace
          /\ dropoff' = NullPlace
          /\ query' = [f \in Fields |-> ""]
          /\ suggestions' = [f \in Fields |-> NoSuggestions]
          /\ suggestTimer' = [f \in Fields |-> TRUE]
          /\ fetches' = {}
          /\ issued' = [f \in Fields |-> 0]
          /\ nextFetch' = 1
          /\ geocodes' = <<>>
          /\ route' = NoRoute
          /\ routeError' = NoRouteError
          /\ tripStatus' = "idle"
          /\ isCalculatingRoute' = FALSE
          /\ routeTimer' = TRUE
          /\ resolutions' = {}
          /\ issuedRoute' = 0
          /\ nextResolution' = 1
          /\ selectedVehicle' = "Regular"
          /\ confirmTimers' = 0
          /\ lastTripRequest' = NoTripRequest
          /\ distance' = 0
     ELSE UNCHANGED <<viewVars, suggestTimer>>
  /\ IF ViewOf(u) = "admin"
     THEN IF renderView # "admin"
          THEN form' = settings /\ saving' = "idle"
          ELSE UNCHANGED <<form, saving>>
     ELSE form' = NoForm /\ saving' = "idle"
  /\ IF ViewOf(u) = "activation" /\ renderView = "activation"
     THEN UNCHANGED submitting
     ELSE submitting' = FALSE

\* handleLogin signs in and the App sets the user (const login = (userData) =>
\* setUser(userData))
handleLogin ==
  \E u \in Users :
    /\ LoginFormShown
    /\ setUser(u)
    /\ lastLogin' = BySignIn
    /\ UNCHANGED <<orsApiKey, settings, quote, prevQuote, settingsLoading, settingsError,
                   settingsCalls, saveCalls, activations, loadedRow, driverVars, routeVars>>

\* const logout = () => { setUser(null); }: the button of the driver view, of the admin
\* dashboard and of the activation screen (the customer view has none)
logout ==
  /\ renderView \in {"driver", "admin", "activation"}
  /\ setUser(NoUser)
  /\ activations' = Disowned(activations)
  /\ UNCHANGED <<orsApiKey, settings, quote, prevQuote, settingsLoading, settingsError,
                 settingsCalls, saveCalls, loadedRow, lastLogin, driverVars, routeVars>>

\* mutant of handleInputChange: the field is written into the object the form shares
\* with the provider
handleInputChangeInPlace ==
  \E name \in FormFields, value \in FormValues :
    /\ renderView = "admin"
    /\ ~settingsLoading
    /\ form[name] # value
    /\ form' = [form EXCEPT ![name] = value]
    /\ settings' = [settings EXCEPT ![name] = value]
    /\ UNCHANGED <<user, settingsLoading, settingsError, settingsCalls, saveCalls, saving,
                   activations, submitting, loadedRow, lastLogin, distance, quote, prevQuote,
                   customerVars, driverVars, routeVars>>

\* const handleInputChange = (e) => { ...; setSettings(prev => ({ ...prev, [name]: value }))
\* of AppSettings: a new object for the form's copy
handleInputChange ==
  \E name \in FormFields, value \in FormValues :
    /\ renderView = "admin"
    /\ ~settingsLoading
    /\ form[name] # value
    /\ form' = [form EXCEPT ![name] = value]
    /\ UNCHANGED <<user, settingsLoading, settingsError, settingsCalls, saveCalls, saving,
                   activations, submitting, loadedRow, lastLogin, fareVars, customerVars,
                   driverVars, routeVars>>

\* const handleSave = async (e) => { ...; const result = await updateSettings(settings)
\* of AppSettings, which renders its form when the settings are not loading and
\* disables the button while saving
handleSave ==
  /\ renderView = "admin"
  /\ ~settingsLoading
  /\ saving = "idle"
  /\ saveCalls < MaxSaves
  /\ saveCalls' = saveCalls + 1
  /\ saving' = "updating"
  /\ UNCHANGED <<user, settingsLoading, settingsError, settingsCalls, form, activations,
                 submitting, loadedRow, lastLogin, fareVars, customerVars, driverVars,
                 routeVars>>

\* handleSave from the answer of updateSettings: if (result.success) { ...; await
\* refetchSettings(); } else a notification and, in finally, setSaving(false); own is
\* whether the call is the one of the mounted form
UpdateSettingsResponds ==
  \E success \in BOOLEAN, own \in BOOLEAN :
    /\ IF own THEN saving = "updating"
              ELSE saveCalls > (IF saving = "updating" THEN 1 ELSE 0)
    /\ saveCalls' = saveCalls - 1
    /\ IF success
       THEN /\ fetchSettings
            /\ saving' = IF own THEN "schema" ELSE saving
       ELSE /\ UNCHANGED <<settingsLoading, settingsError, settingsCalls>>
            /\ saving' = IF own THEN "idle" ELSE saving
    /\ UNCHANGED <<user, form, activations, submitting, loadedRow, lastLogin, fareVars,
                   customerVars, driverVars, routeVars>>

\* const handleSubmit = async (e) => { ... const updatedUser = await
\* verifyActivationCode(user.id, fullCode) of ActivationScreen, for a code of 6 digits
handleSubmit ==
  \E code \in Codes :
    /\ renderView = "activation"
    /\ ~submitting
    /\ Len(activations) < MaxActivations
    /\ submitting' = TRUE
    /\ activations' = Append(activations, [user |-> user, code |-> code, own |-> TRUE])
    /\ UNCHANGED <<user, settingsLoading, settingsError, settingsCalls, saveCalls, saving,
                   form, loadedRow, lastLogin, fareVars, customerVars, driverVars, routeVars>>

\* verifyActivationCode: the users row is found or not, its activation_code equals the
\* code or not, the update succeeds or not; the updated user, or null
verifyActivationCode(u, code, found, stored, updated) ==
  IF found /\ stored = code /\ updated THEN [u EXCEPT !.is_verified = TRUE] ELSE NoUser

\* handleSubmit from the answer of verifyActivationCode: onActivationSuccess(updatedUser),
\* which is the login of App, or the error message; then setLoading(false)
VerifyResponds ==
  \E i \in 1..Len(activations), found \in BOOLEAN, stored \in StoredCodes, updated \in BOOLEAN :
    LET call == activations[i]
        updatedUser == verifyActivationCode(call.user, call.code, found, stored, updated)
    IN /\ IF updatedUser # NoUser
          THEN /\ setUser(updatedUser)
               /\ lastLogin' = [by |-> "activation", code |-> call.code, stored |-> stored]
               /\ activations' = IF ViewOf(updatedUser) = renderView
                                 THEN RemoveAt(activations, i)
                                 ELSE Disowned(RemoveAt(activations, i))
          ELSE /\ submitting' = IF call.own THEN FALSE ELSE submitting
               /\ activations' = RemoveAt(activations, i)
               /\ UNCHANGED <<user, lastLogin, form, saving, viewVars, suggestTimer>>
       /\ UNCHANGED <<orsApiKey, settings, quote, prevQuote, settingsLoading, settingsError,
                      settingsCalls, saveCalls, loadedRow, driverVars, routeVars>>

\* a verified user of a role
Verified(role) == [role |-> role, is_verified |-> TRUE]

\* the provider after a load that succeeded, with user u
Session(u) ==
  /\ user = u
  /\ settingsLoading = FALSE
  /\ settingsError = NoSettingsError
  /\ settingsCalls = [schema |-> 0, settings |-> 0]
  /\ saveCalls = 0
  /\ saving = "idle"
  /\ form = NoForm
  /\ activations = <<>>
  /\ submitting = FALSE
  /\ loadedRow = settings
  /\ lastLogin = BySignIn

\* the App after mount: no user, and the fetchSettings of the provider's effect in flight
AppInit ==
  /\ user = NoUser
  /\ settingsLoading = TRUE
  /\ settingsError = NoSettingsError
  /\ settingsCalls = [schema |-> 1, settings |-> 0]
  /\ saveCalls = 0
  /\ saving = "idle"
  /\ form = NoForm
  /\ activations = <<>>
  /\ submitting = FALSE
  /\ loadedRow = NoRow
  /\ lastLogin = BySignIn

\* the handlers of the customer view that lead from its mount to a request
CustomerSessionNext ==
  /\ renderView = "customer"
  /\ \/ TypeQuery
     \/ SuggestTimerFires
     \/ AutocompleteResponds
     \/ ClickSuggestion
     \/ calculateRoute
     \/ ResolutionReturns
     \/ handleRequestTrip
     \/ ConfirmTimer

\* the App: users sign in and out, the admin saves the settings, a customer asks for a
\* quote and requests a trip
AppNext ==
  \/ SchemaCheckResponds
  \/ GetSettingsResponds
  \/ handleRetry
  \/ handleLogin
  \/ logout
  \/ handleInputChange
  \/ handleSave
  \/ UpdateSettingsResponds
  \/ CustomerSessionNext

\* the settings provider with the screens that call it: Login and the admin's form
SettingsNext ==
  \/ SchemaCheckResponds
  \/ GetSettingsResponds
  \/ handleRetry
  \/ handleLogin
  \/ logout
  \/ handleInputChange
  \/ handleSave
  \/ UpdateSettingsResponds

\* signing in and out and the activation screen
AuthNext ==
  \/ handleLogin
  \/ logout
  \/ handleSubmit
  \/ VerifyResponds

(***************************************************************************)
(* Specifications                                                          *)
(***************************************************************************)
\* a component that takes no step in a specification stays in one initial state
DriverIdle == DriverInit

RouteIdle ==
  /\ RouteInit
  /\ start = [lat |-> 0, lng |-> 0]
  /\ end = [lat |-> 0, lng |-> 0]

FareIdle ==
  /\ FareInit
  /\ settings = [base_fare_syp |-> 2000, per_km_fare_syp |-> 500,
                 vehicle_multipliers |-> DefaultMultipliers]

CustomerIdle ==
  /\ CustomerInit
  /\ orsApiKey = FALSE

InitDriver == DriverInit /\ RouteIdle /\ FareIdle /\ CustomerIdle /\ Session(Verified("driver"))

InitRoute == DriverIdle /\ RouteInit /\ FareIdle /\ CustomerIdle /\ Session(Verified("customer"))

InitFare == DriverIdle /\ RouteIdle /\ FareInit /\ CustomerIdle /\ Session(Verified("customer"))

\* the view after mount with an API key
CustomerMounted ==
  /\ CustomerInit
  /\ orsApiKey = TRUE

\* the view once "da" was typed into both fields and both fetches have been answered
\* with a feature (the timers set on mount have fired)
SuggestionsLoaded ==
  /\ geo = NoFix
  /\ orsApiKey = TRUE
  /\ pickup = NullPlace
  /\ dropoff = NullPlace
  /\ query = [f \in Fields |-> "da"]
  /\ suggestions = [f \in Fields |->
                      [fetch |-> IF f = "pickup" THEN 1 ELSE 2, query |-> "da", length |-> 1]]
  /\ suggestTimer = [f \in Fields |-> FALSE]
  /\ fetches = {}
  /\ issued = [f \in Fields |-> IF f = "pickup" THEN 1 ELSE 2]
  /\ nextFetch = 3
  /\ geocodes = <<>>
  /\ route = NoRoute
  /\ routeError = NoRouteError
  /\ tripStatus = "idle"
  /\ isCalculatingRoute = FALSE
  /\ routeTimer = FALSE
  /\ resolutions = {}
  /\ issuedRoute = 0
  /\ nextResolution = 1
  /\ selectedVehicle = "Regular"
  /\ confirmTimers = 0
  /\ lastTripRequest = NoTripRequest

\* the settings rows of the customer's session: one that offers Regular and VIP, and one
\* that offers VIP only
CustomerConfigs ==
  { [base_fare_syp |-> 2000, per_km_fare_syp |-> 500, vehicle_multipliers |-> m] :
      m \in {TwoClassMultipliers, VipOnlyMultipliers} }

InitSuggest == DriverIdle /\ RouteIdle /\ FareIdle /\ CustomerMounted /\ Session(Verified("customer"))

InitCustomer ==
  /\ DriverIdle
  /\ RouteIdle
  /\ settings \in CustomerConfigs
  /\ distance = 0
  /\ quote = NoQuote
  /\ prevQuote = NoQuote
  /\ SuggestionsLoaded
  /\ Session(Verified("customer"))

InitApp == DriverIdle /\ RouteIdle /\ FareIdle /\ CustomerIdle /\ AppInit

SpecDriver == InitDriver /\ [][DriverNext]_vars

SpecDriverUI == InitDriver /\ [][DriverUINext]_vars

SpecDriverView == InitDriver /\ [][DriverViewNext]_vars

SpecRoute == InitRoute /\ [][RouteNext]_vars

SpecFare == InitFare /\ [][FareNext]_vars

SpecSuggest == InitSuggest /\ [][SuggestNext]_vars

SpecCustomer == InitCustomer /\ [][CustomerNext]_vars

SpecRequest == InitCustomer /\ [][RequestNext]_vars

\* the request flow with the steps the browser schedules by itself: a pending timer
\* fires; nothing makes the routing service answer
SpecRequestFair ==
  /\ InitCustomer
  /\ [][RequestNext]_vars
  /\ WF_vars(SuggestTimerFires)
  /\ WF_vars(calculateRoute)
  /\ WF_vars(ConfirmTimer)

\* the request flow of a customer who also drags the markers of the places
RequestDragNext ==
  \/ RequestNext
  \/ DragMarker
  \/ GeocodeResponds
  \/ GeocodeFails

SpecRequestDrag == InitCustomer /\ [][RequestDragNext]_vars

\* a customer's session and a driver's session side by side
DispatchNext ==
  \/ RequestNext
  \/ DriverUINext

SpecDispatch == InitCustomer /\ [][DispatchNext]_vars

SpecApp == InitApp /\ [][AppNext]_vars

SpecSettings == InitApp /\ [][SettingsNext]_vars

\* the App once the settings were loaded, before anyone signs in
InitAuth == DriverIdle /\ RouteIdle /\ FareIdle /\ CustomerIdle /\ Session(NoUser)

SpecAuth == InitAuth /\ [][AuthNext]_vars

(***************************************************************************)
(* Properties: the driver's availability                                   *)
(***************************************************************************)
\* C27: in every reachable state of the driver view the driver holds a current trip if
\* and only if the availability status is 'in_trip'.
C27_TripIffInTrip == (currentTrip # NullTrip) <=> (status = "in_trip")

\* C28 (safety part): while the current trip is 'completed' it stays displayed, and the
\* only step that changes the trip or the availability is the completion timer, which
\* leaves no current trip and availability 'online'.
C28_CompletedUntilTimer ==
  [][ (currentTrip # NullTrip /\ currentTrip.status = "completed") =>
        /\ TripPanelShown
        /\ \/ (currentTrip' = currentTrip /\ status' = status)
           \/ (timers' = timers - 1 /\ currentTrip' = NullTrip /\ status' = "online")
    ]_vars

(***************************************************************************)
(* Properties: trip state machine                                          *)
(***************************************************************************)
\* C1: a status-change request whose (from, to) pair is not in the transition table
\* is rejected with InvalidTransition and leaves the trip's status as it was.
C1_InvalidTransitionRejected ==
  (lastRequest # NoRequest /\ <<lastRequest.from, lastRequest.to>> \notin TransitionTable)
    => (lastRequest.error = "InvalidTransition" /\ lastRequest.after = lastRequest.from)

\* the status of trip id as the driver view holds it, "null" when it holds no such trip
HeldStatus(cur, inc, id) ==
  IF cur.id = id THEN cur.status
  ELSE IF inc.id = id THEN inc.status
  ELSE "null"

\* C2: over any sequence of driver actions, every change of a trip's status follows
\* one edge of the transition table (never backward, never skipping a status).
C2_StatusFollowsEdges ==
  [][\A id \in 1..MaxTrips :
       LET before == HeldStatus(currentTrip, incomingRequest, id)
           after == HeldStatus(currentTrip', incomingRequest', id)
       IN (before # "null" /\ after # "null" /\ before # after)
            => <<before, after>> \in TransitionTable]_vars

\* C2 witness: the driver has taken a trip to completed by ending it from in_progress
C2_Witness ==
  /\ currentTrip.status = "completed"
  /\ lastRequest.from = "in_progress"
  /\ lastRequest.to = "completed"
  /\ lastRequest.trip = currentTrip.id

\* C3: a request made on a trip whose status is completed or cancelled fails with
\* TripAlreadyTerminal and the status stays terminal.
C3_TerminalRejected ==
  (lastRequest # NoRequest /\ lastRequest.from \in TerminalStatuses)
    => (lastRequest.error = "TripAlreadyTerminal" /\ lastRequest.after = lastRequest.from)

(***************************************************************************)
(* Properties: route resolution                                            *)
(***************************************************************************)
\* C4: one invocation of getRouteOSRM issues at most 2 requests to the route endpoint
\* and at most 2 requests to the nearest endpoint.
C4_AtMostTwoCalls == Len(routeCalls) <= 2 /\ Len(snapCalls) <= 2

\* C4 witness: an invocation that ended after 2 route requests and 2 nearest requests
C4_Witness == pc = "done" /\ Len(routeCalls) = 2 /\ Len(snapCalls) = 2

\* the snap-and-retry decision has been taken
Decided == pc \in {"route2", "final", "done"}

\* C5: after the first route call reports no route, both points are snapped and the
\* second route call is issued iff at least one snapped coordinate differs from its
\* original; it carries the snapped value of every point that moved and the original
\* value of every point that did not.
C5_RetryIffSnapMoved ==
  (Decided /\ ReportsNoRoute(firstResponse)) =>
    /\ snapCalls = <<start, end>>
    /\ Len(routeCalls) = 2 <=> (snapped[1] # start \/ snapped[2] # end)
    /\ Len(routeCalls) = 2 =>
         routeCalls[2] = [start |-> IF snapped[1] # start THEN snapped[1] ELSE start,
                          end |-> IF snapped[2] # end THEN snapped[2] ELSE end]

\* C5 witness: no route, the pickup alone moved, the retry succeeded
C5_Witness ==
  /\ pc = "done"
  /\ ReportsNoRoute(firstResponse)
  /\ snapped[1] # start
  /\ snapped[2] = end
  /\ Len(routeCalls) = 2
  /\ routeCalls[2] = [start |-> snapped[1], end |-> end]
  /\ outcome = Returned

\* the messages a caller recognises as 'No route found'
NoRouteFoundMessages == {MsgNoRouteAfterSnap, MsgNoRouteByOSRM}

\* the response in hand is the one of the retried call (its body is unread) and it
\* reports no route
RetryReportsNoRoute ==
  Len(routeCalls) = 2 /\ ~response.bodyUsed /\ ReportsNoRoute(response)

\* the first call reported no route and either no retry was made or the retry
\* reported no route too
NoRouteCase ==
  /\ ReportsNoRoute(firstResponse)
  /\ Len(routeCalls) = 1 \/ RetryReportsNoRoute

\* C6: when the first route call reports no route and either snapping changes nothing
\* or the retried call reports no route too, getRouteOSRM fails with the error the
\* caller recognises as 'No route found'.
C6_NoRouteFoundError ==
  (pc = "done" /\ NoRouteCase) =>
    (outcome.kind = "throw" /\ outcome.message \in NoRouteFoundMessages)

\* a non-2xx answer of the route call other than the no-route one
TransportFailure(r) ==
  r.status # 0 /\ ~ResponseOk(r) /\ ~(IsJson(r.body) /\ Code(r.body) = "NoRoute")

\* C7: a non-2xx answer of the route call other than the no-route one makes
\* getRouteOSRM fail with the routing-service error, no snap and no retry is made,
\* and that error is not the one a no-route resolution ends with.
C7_TransportFailureDistinct ==
  pc = "done" =>
    /\ TransportFailure(firstResponse) =>
         /\ outcome = Thrown(MsgFailedToFetchRoute)
         /\ Len(snapCalls) = 0
         /\ Len(routeCalls) = 1
    /\ NoRouteCase => outcome # Thrown(MsgFailedToFetchRoute)

\* return { geometry, distance, duration }: the fields of the object getRouteOSRM returns
ResultFields == {"geometry", "distance", "duration"}

\* result.usedFallback as a caller reads it from the returned object: a field the
\* object has not reads as undefined
UsedFallbackRead == IF "usedFallback" \in ResultFields THEN "boolean" ELSE "undefined"

\* C23: a successful result carries usedFallback = true exactly when the snap-and-retry
\* path ran (a second route call was made), and usedFallback = false when the first
\* call succeeded.
C23_UsedFallbackIffRetried ==
  (pc = "done" /\ outcome = Returned) =>
     /\ UsedFallbackRead = "boolean"
     /\ Len(routeCalls) \in {1, 2}

\* the kinds of failed nearest-point lookups
FailedSnapKinds == SnapKinds \ {"waypoint"}

\* C18: a nearest-point lookup that fails (a rejected fetch, a non-2xx response, a body
\* that is no JSON or has no waypoint) makes snapToRoad resolve to the point it was
\* called with and raises nothing to getRouteOSRM; the value for one point depends on
\* the answer for that point only.
C18_SnapFailureKeepsOriginal ==
  /\ \A i \in 1..2 :
       /\ snapReply[i].kind \in FailedSnapKinds => snapped[i] = snapCalls[i]
       /\ snapReply[i].kind = "waypoint" => snapped[i] = snapReply[i].location
  /\ pc = "snap" => outcome = Pending
  /\ (pc \in {"route2", "final", "done"} /\ Len(snapCalls) = 2) =>
       \A i \in 1..2 : snapReply[i].kind \in SnapKinds

\* C18 witness: the lookup for the pickup was rejected and the one for the dropoff moved
\* it; the retry was made with the original pickup and the snapped dropoff
C18_Witness ==
  /\ pc = "done"
  /\ snapReply[1].kind = "reject"
  /\ snapReply[2].kind = "waypoint"
  /\ snapped[1] = start
  /\ snapped[2] # end
  /\ routeCalls[2] = [start |-> start, end |-> snapped[2]]

(***************************************************************************)
(* Properties: fare quotes                                                 *)
(***************************************************************************)
\* the rational n / d (d > 0) rounded to the nearest integer, ties away from zero
RoundHalfAwayFromZero(n, d) ==
  IF n >= 0 THEN (2 * n + d) \div (2 * d) ELSE 0 - ((2 * (0 - n) + d) \div (2 * d))

\* round((baseFare + (d / 1000) * perKmFare) * multiplier[c])
FormulaPrice(cfg, d, c) ==
  RoundHalfAwayFromZero(
    (cfg.base_fare_syp * 1000 + d * cfg.per_km_fare_syp) * cfg.vehicle_multipliers[c],
    1000 * MultiplierScale)

\* the quote in the state is one for a class of the multiplier mapping
QuotedInMapping == quote # NoQuote /\ quote.v \in DOMAIN settings.vehicle_multipliers

\* C8: for d > 0 and a class of the multiplier mapping the quoted price is
\* round((baseFare + (d/1000) * perKmFare) * multiplier[c]), ties away from zero;
\* with baseFare 2000 and perKmFare 500, 5000 m cost 4500 at multiplier 1 and 9000 at 2.
C8_QuoteFormula ==
  (QuotedInMapping /\ quote.d > 0) =>
    /\ quote.p = FormulaPrice(settings, quote.d, quote.v)
    /\ (settings.base_fare_syp = 2000 /\ settings.per_km_fare_syp = 500 /\ quote.d = 5000) =>
         /\ settings.vehicle_multipliers[quote.v] = 10 => quote.p = 4500
         /\ settings.vehicle_multipliers[quote.v] = 20 => quote.p = 9000

\* C8 witness: the VIP quote of the scenario
C8_Witness ==
  /\ settings.base_fare_syp = 2000
  /\ settings.per_km_fare_syp = 500
  /\ quote.d = 5000
  /\ quote.v = "VIP"
  /\ quote.p = 9000

\* C9: for a distance of 0 the quote is round(baseFare * multiplier), not zero.
C9_ZeroDistanceQuote ==
  (QuotedInMapping /\ quote.d = 0) =>
    quote.p = RoundHalfAwayFromZero(
                settings.base_fare_syp * settings.vehicle_multipliers[quote.v], MultiplierScale)

\* C10: for a fixed class and configuration the quote is non-decreasing in the distance.
C10_MonotoneInDistance ==
  (quote # NoQuote /\ prevQuote # NoQuote /\ quote.v = prevQuote.v /\ prevQuote.d <= quote.d)
    => prevQuote.p <= quote.p

\* C10 witness: the step from distance 0 to a positive distance
C10_Witness ==
  /\ prevQuote # NoQuote
  /\ prevQuote.d = 0
  /\ quote.d > 0
  /\ quote.v = prevQuote.v
  /\ prevQuote.p < quote.p

\* C11: for every valid configuration and distance, a class with a greater multiplier
\* is quoted at least the price of a class with a smaller one.
C11_MonotoneInMultiplier ==
  (/\ QuotedInMapping
   /\ prevQuote # NoQuote
   /\ prevQuote.v \in DOMAIN settings.vehicle_multipliers
   /\ prevQuote.d = quote.d
   /\ settings.vehicle_multipliers[quote.v] > settings.vehicle_multipliers[prevQuote.v])
    => quote.p >= prevQuote.p

\* C11 witness: at 5000 m VIP (multiplier 2) is quoted above Regular (multiplier 1)
C11_Witness ==
  /\ quote.d = 5000
  /\ prevQuote.d = 5000
  /\ prevQuote.v = "Regular"
  /\ quote.v = "VIP"
  /\ quote.p > prevQuote.p

(***************************************************************************)
(* Properties: address suggestions and route resolution of the customer    *)
(***************************************************************************)
\* C12: a fetch result is written to a field's suggestion list only if that fetch is
\* the last one issued for the field: the result of an earlier fetch that arrives
\* after a newer one was issued is discarded.
C12_LastRequestWins ==
  [][\A f \in Fields :
       (suggestions'[f] # suggestions[f] /\ suggestions'[f].fetch # 0)
         => suggestions'[f].fetch = issued[f]]_vars

\* a resolution in flight is still the latest request: no later one was issued and the
\* pickup/dropoff pair is the one it was issued for
StillLatest(x) ==
  /\ x.id = issuedRoute
  /\ x.start = pickup.coords
  /\ x.end = dropoff.coords

\* C13: a route resolution that completes after the pickup/dropoff pair was changed or
\* cleared, or after a later resolution was issued, writes none of route, distance,
\* duration, routeError and tripStatus.
C13_SupersededNeverCommits ==
  [][\A x \in resolutions :
       (x \notin resolutions' /\ ~StillLatest(x))
         => UNCHANGED <<route, distance, routeError, tripStatus>>]_vars

\* pickup or dropoff, by field, after the step
PlaceAfter(f) == IF f = "pickup" THEN pickup' ELSE dropoff'

\* C17: when a reverse geocoding started by handleSetPickup / handleSetDropoff fails,
\* the place is stored with exactly the given coordinates and the placeholder address,
\* and the route resolution is scheduled as after a successful geocoding; a resolution
\* is issued for the coordinates of the stored places, whatever their addresses.
C17_GeocodeFailureKeepsPoint ==
  [][/\ Len(geocodes') < Len(geocodes) =>
          \E i \in 1..Len(geocodes) :
            /\ geocodes' = RemoveAt(geocodes, i)
            /\ PlaceAfter(geocodes[i].field) =
                 Place(geocodes[i].coords,
                       IF geocodes[i].reply = Rejected THEN PlaceholderAddress
                       ELSE geocodes[i].reply)
            /\ routeTimer'
     /\ \A x \in resolutions' \ resolutions :
          x.start = pickup.coords /\ x.end = dropoff.coords]_vars

\* C17 witness: the pickup carries the placeholder address of a failed geocoding, and the
\* route of the pair is resolved and priced
C17_Witness ==
  /\ pickup.address = PlaceholderAddress
  /\ dropoff # NullPlace
  /\ route.start = pickup.coords
  /\ route.end = dropoff.coords
  /\ QuotePanelShown
  /\ "VIP" \in DOMAIN ShownQuotes
  /\ ShownQuotes["VIP"] = 9000

\* C19: a vehicle class that is absent from the multiplier mapping gets no quote (and no
\* substitute multiplier) while every class of the mapping is quoted, and a trip is
\* never requested with a class that is not offered.
C19_AbsentClassNotOffered ==
  /\ QuotePanelShown =>
       /\ DOMAIN ShownQuotes = VehicleType \cap DOMAIN settings.vehicle_multipliers
       /\ \A v \in DOMAIN ShownQuotes :
            ShownQuotes[v] = calculatePrice(settings, distance, v)
  /\ lastTripRequest # NoTripRequest => lastTripRequest.offered

\* C20: while the last settings load ended in SETUP_REQUIRED, SCHEMA_OUTDATED or
\* NETWORK_ERROR, the customer is shown no fare quote and no request button: the flow
\* is blocked until a later load succeeds, and nothing is priced from defaultSettings.
C20_ConfigErrorBlocksQuotes ==
  (renderView = "customer" /\ settingsError \in SettingsErrors) =>
     (~QuotePanelShown /\ ShownQuotes = << >>)

\* C24: route recomputation and suggestion fetches are debounced. A change of a query
\* or of the pickup/dropoff pair starts no request; it leaves one timer pending (the
\* previous one is cancelled). A request is started only by the firing of the pending
\* timer, which leaves no timer pending, and it carries the last value: the query, or
\* the pickup/dropoff pair, at the time of the firing. So a burst of changes made
\* before the timer fires starts exactly one request, with the last value.
C24_Debounced ==
  [][ /\ \A f \in Fields :
           /\ query'[f] # query[f] => (suggestTimer'[f] /\ fetches' \subseteq fetches)
           /\ issued'[f] # issued[f] =>
                /\ suggestTimer[f] /\ ~suggestTimer'[f]
                /\ query' = query
                /\ fetches' \ fetches = {[id |-> nextFetch, field |-> f, query |-> query[f]]}
      /\ (pickup' # pickup \/ dropoff' # dropoff) =>
           (routeTimer' /\ resolutions' \subseteq resolutions)
      /\ nextResolution' # nextResolution =>
           /\ routeTimer /\ ~routeTimer'
           /\ pickup' = pickup /\ dropoff' = dropoff
           /\ resolutions' \ resolutions =
                {[id |-> nextResolution, start |-> pickup.coords, end |-> dropoff.coords]}
    ]_vars

\* after "dam" was typed into the pickup field the timer has fired once: the one fetch
\* started for the field carries "dam" and no timer is pending for it; and the one
\* resolution started carries the pair of places last set
C24_Witness ==
  /\ fetches = {[id |-> 2, field |-> "pickup", query |-> "dam"]}
  /\ issued["pickup"] = 2
  /\ query["pickup"] = "dam"
  /\ ~suggestTimer["pickup"]
  /\ nextResolution = 2
  /\ ~routeTimer
  /\ resolutions = {[id |-> 1, start |-> pickup.coords, end |-> dropoff.coords]}

\* C25: once the customer's trip status is 'requested' or 'confirmed' it never returns
\* to 'idle' or 'pricing', whatever happens later (a marker drag, a reverse-geocode
\* response, a route resolution started or completed, the acceptance timer).
C25_RequestedNeverBackToPricing ==
  [][ (tripStatus \in {"requested", "confirmed"}) => (tripStatus' \in {"requested", "confirmed"}) ]_vars

\* C26: a trip request is only issued in a state where the trip status is 'pricing',
\* the last route resolution for the current pickup/dropoff succeeded with distance > 0
\* (its route is the one displayed, and none is in flight), no route error is set, no
\* calculation is flagged in progress and the settings are not loading.
C26_RequestOnlyOnFreshQuote ==
  [][ (tripStatus' = "requested" /\ confirmTimers' = confirmTimers + 1) =>
        /\ tripStatus = "pricing"
        /\ distance > 0
        /\ routeError = NoRouteError
        /\ ~isCalculatingRoute
        /\ ~settingsLoading
        /\ resolutions = {}
        /\ pickup # NullPlace /\ dropoff # NullPlace
        /\ route.start = pickup.coords /\ route.end = dropoff.coords
    ]_vars

\* C22: a route resolution ends with a result or an error even when the routing
\* service never answers (a bounded timeout ends it), so the route-calculating
\* indicator never stays set forever.
C22_ResolutionEventuallyEnds == isCalculatingRoute ~> ~isCalculatingRoute

(***************************************************************************)
(* Properties: the settings provider                                       *)
(***************************************************************************)
\* the snapshots a load can leave: defaultSettings, or a row of getSettings with its key
WholeSnapshots ==
  {<<defaultSettings, FALSE>>} \cup {<<d.row, d.ors_api_key>> : d \in SettingsRows}

\* the number of fetchSettings calls in flight
LoadsInFlight(calls) == calls.schema + calls.settings

\* C21: the snapshot fare computations read changes only in a step that ends a settings
\* load, and then to the defaults or to one whole row; typing into the admin form and a
\* save that fails change no field of it.
C21_SnapshotReplacedWhole ==
  [][/\ (settings' # settings \/ orsApiKey' # orsApiKey) =>
          /\ LoadsInFlight(settingsCalls') < LoadsInFlight(settingsCalls)
          /\ <<settings', orsApiKey'>> \in WholeSnapshots
     /\ (form' # form /\ LoadsInFlight(settingsCalls') = LoadsInFlight(settingsCalls)) =>
          settings' = settings
     /\ (saveCalls' < saveCalls /\ settingsCalls' = settingsCalls) =>
          settings' = settings]_vars

\* C21 witness: the admin has typed another base fare into the form while the snapshot
\* still holds the loaded row
C21_Witness ==
  /\ renderView = "admin"
  /\ form.base_fare_syp = 3000
  /\ settings.base_fare_syp = 2000
  /\ settings = loadedRow
  /\ saving = "idle"

\* C29: after any loads and refreshes of the settings provider, also overlapping ones:
\* when loading is false and error is set the snapshot is defaultSettings, and when
\* loading is false and error is null the snapshot is the row the last successful
\* getSettings returned.
C29_ProviderStateConsistent ==
  /\ (~settingsLoading /\ settingsError # NoSettingsError) => settings = defaultSettings
  /\ (~settingsLoading /\ settingsError = NoSettingsError) =>
       (loadedRow # NoRow /\ settings = loadedRow)

(***************************************************************************)
(* Properties: the views of the App                                        *)
(***************************************************************************)
\* C30: a role view is shown only for a logged-in verified user of that role; an
\* unverified user sees the activation screen and becomes verified through it only
\* with the stored code; after logout no role view is shown until someone signs in.
C30_ViewsFollowLogin ==
  [][/\ renderView' \in UserRoles => (user'.is_verified /\ renderView' = user'.role)
     /\ (user' # NoUser /\ ~user'.is_verified) => renderView' = "activation"
     /\ (user = NoUser /\ user' # NoUser) => lastLogin' = BySignIn
     /\ (user # NoUser /\ ~user.is_verified /\ user'.is_verified) =>
          /\ user' = [user EXCEPT !.is_verified = TRUE]
          /\ lastLogin'.by = "activation"
          /\ lastLogin'.code = lastLogin'.stored]_vars

(***************************************************************************)
(* Properties: dispatch and the trip record                                *)
(***************************************************************************)
\* a driver has accepted an offered trip at some time
SomeDriverAccepted == lastRequest # NoRequest

\* C14: a requested trip is reported to the customer as confirmed only after a driver
\* accepted it: while the offer was declined, timed out or reached no driver, the trip
\* stays requested (or the request fails with NoDriversAvailable).
C14_ConfirmedOnlyIfAccepted ==
  tripStatus \in {"confirmed", "ongoing"} => SomeDriverAccepted

\* the trips the driver view holds
HeldTrips == {currentTrip, incomingRequest} \ {NullTrip}

\* C15: a trip whose status is requested or scheduled has no driver id, and a trip whose
\* status is accepted, driver_arrived, in_progress or completed has the id of the driver
\* who accepted it; in particular the current trip has it after handleAcceptRequest.
C15_DriverIdFollowsStatus ==
  \A trip \in HeldTrips :
    /\ trip.status \in {"requested", "scheduled"} => trip.driver_id = NoDriver
    /\ trip.status \in {"accepted", "driver_arrived", "in_progress", "completed"}
         => trip.driver_id # NoDriver

\* C16: a completed trip has its final price set, and it equals the quoted price when
\* no distinct final price is supplied.
C16_FinalPriceOnCompletion ==
  \A trip \in HeldTrips :
    trip.status = "completed" =>
      (trip.final_cost # NoCost /\ trip.final_cost = trip.estimated_cost)

====
